---- MODULE Spec2Model ----
(***************************************************************************)
(* A model of the QR encoder of Qr.py: the class Qr, whose constructor     *)
(* loads the version row, formats the data into the final bit string       *)
(* (mode, count, payload, padding, Reed-Solomon coding, interleaving) and  *)
(* generates the module matrix (function patterns, zig-zag data placement, *)
(* masking, merge, format bits).                                           *)
(*                                                                         *)
(* Bit strings ('0'/'1' characters) are sequences over {0,1}; numpy        *)
(* matrices are functions [0..n-1 -> [0..n-1 -> Int]], indexed [l][c]      *)
(* (line, column) as in the source.                                        *)
(***************************************************************************)
EXTENDS Integers, Sequences, FiniteSets, TLC

(***************************************************************************)
(* Bounds of the model.                                                    *)
(***************************************************************************)
\* longest payload drawn for a run of the whole pipeline
MaxDataLen == 8
\* how far left of column 0 the walker of drawBits is followed
MaxOvershoot == 4
\* side of the grids the mask is applied to in MaskSpec
MaskSize == 6
\* longest payload drawn for a run of the data formatting alone
MaxFormatLen == 3

(***************************************************************************)
(* Constants of Qr.py (lines 363-444).                                     *)
(***************************************************************************)
\* FORMATBITS[ecc][mask+1] is the string FORMATBITS[ecc + str(mask)]
FORMATBITS ==
    [L |-> <<
        <<1,1,1,0,1,1,1,1,1,0,0,0,1,0,0>>,
        <<1,1,1,0,0,1,0,1,1,1,1,0,0,1,1>>,
        <<1,1,1,1,1,0,1,1,0,1,0,1,0,1,0>>,
        <<1,1,1,1,0,0,0,1,0,0,1,1,1,0,1>>,
        <<1,1,0,0,1,1,0,0,0,1,0,1,1,1,1>>,
        <<1,1,0,0,0,1,1,0,0,0,1,1,0,0,0>>,
        <<1,1,0,1,1,0,0,0,1,0,0,0,0,0,1>>,
        <<1,1,0,1,0,0,1,0,1,1,1,0,1,1,0>>
     >>,
     M |-> <<
        <<1,0,1,0,1,0,0,0,0,0,1,0,0,1,0>>,
        <<1,0,1,0,0,0,1,0,0,1,0,0,1,0,1>>,
        <<1,0,1,1,1,1,0,0,1,1,1,1,1,0,0>>,
        <<1,0,1,1,0,1,1,0,1,0,0,1,0,1,1>>,
        <<1,0,0,0,1,0,1,1,1,1,1,1,0,0,1>>,
        <<1,0,0,0,0,0,0,1,1,0,0,1,1,1,0>>,
        <<1,0,0,1,1,1,1,1,0,0,1,0,1,1,1>>,
        <<1,0,0,1,0,1,0,1,0,1,0,0,0,0,0>>
     >>,
     Q |-> <<
        <<0,1,1,0,1,0,1,0,1,0,1,1,1,1,1>>,
        <<0,1,1,0,0,0,0,0,1,1,0,1,0,0,0>>,
        <<0,1,1,1,1,1,1,0,0,1,1,0,0,0,1>>,
        <<0,1,1,1,0,1,0,0,0,0,0,0,1,1,0>>,
        <<0,1,0,0,1,0,0,1,0,1,1,0,1,0,0>>,
        <<0,1,0,0,0,0,1,1,0,0,0,0,0,1,1>>,
        <<0,1,0,1,1,1,0,1,1,0,1,1,0,1,0>>,
        <<0,1,0,1,0,1,1,1,1,1,0,1,1,0,1>>
     >>,
     H |-> <<
        <<0,0,1,0,1,1,0,1,0,0,0,1,0,0,1>>,
        <<0,0,1,0,0,1,1,1,0,1,1,1,1,1,0>>,
        <<0,0,1,1,1,0,0,1,1,1,0,0,1,1,1>>,
        <<0,0,1,1,0,0,1,1,1,0,1,0,0,0,0>>,
        <<0,0,0,0,1,1,1,0,1,1,0,0,0,1,0>>,
        <<0,0,0,0,0,1,0,0,1,0,1,0,1,0,1>>,
        <<0,0,0,1,1,0,1,0,0,0,0,1,1,0,0>>,
        <<0,0,0,1,0,0,0,0,0,1,1,1,0,1,1>>
     >>]

\* VERSIONBITS[v-6] is the string VERSIONBITS[str(v)], v in 7..40
VERSIONBITS ==
    <<<<0,0,0,1,1,1,1,1,0,0,1,0,0,1,0,1,0,0>>,
      <<0,0,1,0,0,0,0,1,0,1,1,0,1,1,1,1,0,0>>,
      <<0,0,1,0,0,1,1,0,1,0,1,0,0,1,1,0,0,1>>,
      <<0,0,1,0,1,0,0,1,0,0,1,1,0,1,0,0,1,1>>,
      <<0,0,1,0,1,1,1,0,1,1,1,1,1,1,0,1,1,0>>,
      <<0,0,1,1,0,0,0,1,1,1,0,1,1,0,0,0,1,0>>,
      <<0,0,1,1,0,1,1,0,0,0,0,1,0,0,0,1,1,1>>,
      <<0,0,1,1,1,0,0,1,1,0,0,0,0,0,1,1,0,1>>,
      <<0,0,1,1,1,1,1,0,0,1,0,0,1,0,1,0,0,0>>,
      <<0,1,0,0,0,0,1,0,1,1,0,1,1,1,1,0,0,0>>,
      <<0,1,0,0,0,1,0,1,0,0,0,1,0,1,1,1,0,1>>,
      <<0,1,0,0,1,0,1,0,1,0,0,0,0,1,0,1,1,1>>,
      <<0,1,0,0,1,1,0,1,0,1,0,0,1,1,0,0,1,0>>,
      <<0,1,0,1,0,0,1,0,0,1,1,0,1,0,0,1,1,0>>,
      <<0,1,0,1,0,1,0,1,1,0,1,0,0,0,0,0,1,1>>,
      <<0,1,0,1,1,0,1,0,0,0,1,1,0,0,1,0,0,1>>,
      <<0,1,0,1,1,1,0,1,1,1,1,1,1,0,1,1,0,0>>,
      <<0,1,1,0,0,0,1,1,1,0,1,1,0,0,0,1,0,0>>,
      <<0,1,1,0,0,1,0,0,0,1,1,1,1,0,0,0,0,1>>,
      <<0,1,1,0,1,0,1,1,1,1,1,0,1,0,1,0,1,1>>,
      <<0,1,1,0,1,1,0,0,0,0,1,0,0,0,1,1,1,0>>,
      <<0,1,1,1,0,0,1,1,0,0,0,0,0,1,1,0,1,0>>,
      <<0,1,1,1,0,1,0,0,1,1,0,0,1,1,1,1,1,1>>,
      <<0,1,1,1,1,0,1,1,0,1,0,1,1,1,0,1,0,1>>,
      <<0,1,1,1,1,1,0,0,1,0,0,1,0,1,0,0,0,0>>,
      <<1,0,0,0,0,0,1,0,0,1,1,1,0,1,0,1,0,1>>,
      <<1,0,0,0,0,1,0,1,1,0,1,1,1,1,0,0,0,0>>,
      <<1,0,0,0,1,0,1,0,0,0,1,0,1,1,1,0,1,0>>,
      <<1,0,0,0,1,1,0,1,1,1,1,0,0,1,1,1,1,1>>,
      <<1,0,0,1,0,0,1,0,1,1,0,0,0,0,1,0,1,1>>,
      <<1,0,0,1,0,1,0,1,0,0,0,0,1,0,1,1,1,0>>,
      <<1,0,0,1,1,0,1,0,1,0,0,1,1,0,0,1,0,0>>,
      <<1,0,0,1,1,1,0,1,0,1,0,1,0,0,0,0,0,1>>,
      <<1,0,1,0,0,0,1,1,0,0,0,1,1,0,1,0,0,1>>>>

\* a function over 1..k as an evaluated sequence
MkSeq(f) == f \o <<>>

\* MASKS[str(m)](i,j), for m in 0..7.  Entry '4' divides with true division:
\* i/2 + j/3 is the rational (3i+2j)/6, so the entry's value is
\* ((3i+2j) % 12)/6; the model returns six times that, which is 0 exactly
\* when the source's value is 0 (the only test applyMask makes).
MASKS(m, i, j) ==
    CASE m = 0 -> (i + j) % 2
      [] m = 1 -> i % 2
      [] m = 2 -> j % 3
      [] m = 3 -> (i + j) % 3
      [] m = 4 -> (3 * i + 2 * j) % 12
      [] m = 5 -> ((i * j) % 2) + ((i * j) % 3)
      [] m = 6 -> (((i * j) % 3) + i * j) % 3
      [] m = 7 -> (((i * j) % 3) + i + j) % 2

\* the keys of MASKS
MaskKeys == 0..7

\* the payload of the module's own run (line 449), as character codes
MainData ==
    <<103,105,116,104,117,98,46,99,111,109,47,110,111,104,101,104,102,47,
      113,114,112,121>>

(***************************************************************************)
(* The rows of qr.csv that the model loads.  The file is a resource of the *)
(* repository that is read by __loadVersion; the rows below are the        *)
(* ISO/IEC 18004 values of the columns the code uses.                      *)
(***************************************************************************)
CsvRow(v, e, n, bin, al, ecc, b) ==
    [version |-> v, errorCorrection |-> e, size |-> n, binary |-> bin,
     alignment |-> al, eccSymbolsPerBlock |-> ecc, blocks |-> b]

QRCSV ==
    { CsvRow(1,  "L", 21, 17,  <<>>, 7,  1), CsvRow(1,  "M", 21, 14,  <<>>, 10, 1),
      CsvRow(1,  "Q", 21, 11,  <<>>, 13, 1), CsvRow(1,  "H", 21, 7,   <<>>, 17, 1),
      CsvRow(2,  "L", 25, 32,  <<6,18>>, 10, 1), CsvRow(2,  "M", 25, 26,  <<6,18>>, 16, 1),
      CsvRow(2,  "Q", 25, 20,  <<6,18>>, 22, 1), CsvRow(2,  "H", 25, 14,  <<6,18>>, 28, 1),
      CsvRow(3,  "L", 29, 53,  <<6,22>>, 15, 1), CsvRow(3,  "M", 29, 42,  <<6,22>>, 26, 1),
      CsvRow(3,  "Q", 29, 32,  <<6,22>>, 18, 2), CsvRow(3,  "H", 29, 24,  <<6,22>>, 22, 2),
      CsvRow(7,  "L", 45, 154, <<6,22,38>>, 20, 2),
      CsvRow(10, "L", 57, 271, <<6,28,50>>, 18, 4), CsvRow(10, "M", 57, 213, <<6,28,50>>, 26, 5),
      CsvRow(10, "Q", 57, 151, <<6,28,50>>, 24, 8), CsvRow(10, "H", 57, 119, <<6,28,50>>, 28, 8) }

\* itertools.product(centres, repeat=2), in its order
AlignmentProduct(centres) ==
    LET k == Len(centres)
    IN  MkSeq([i \in 1..(k * k) |->
                  <<centres[((i - 1) \div k) + 1], centres[((i - 1) % k) + 1]>>])

\* __loadVersion: the row of the requested version and level, its alignment
\* column expanded to the list of centres
loadVersion(forceVersion, errorCorrectionLevel) ==
    LET row == CHOOSE r \in QRCSV :
                   r.version = forceVersion /\ r.errorCorrection = errorCorrectionLevel
    IN  [row EXCEPT !.alignment = AlignmentProduct(row.alignment)]

(***************************************************************************)
(* Bit strings.                                                            *)
(***************************************************************************)
Zeros(k) == MkSeq([i \in 1..k |-> 0])

RECURSIVE ToBin(_)
\* the binary digits of x, most significant first, no leading zero
ToBin(x) == IF x < 2 THEN <<x>> ELSE Append(ToBin(x \div 2), x % 2)

\* format(x,'08b'): at least 8 digits, more when x >= 256
Format08b(x) ==
    LET b == ToBin(x)
    IN  IF Len(b) >= 8 THEN b ELSE Zeros(8 - Len(b)) \o b

RECURSIVE Int2(_)
\* int(bits,2)
Int2(bits) ==
    IF Len(bits) = 0 THEN 0
    ELSE 2 * Int2(SubSeq(bits, 1, Len(bits) - 1)) + bits[Len(bits)]

RECURSIVE ConcatFormat08b(_, _, _)
\* format(x,'08b') of the elements lo..hi of seq, concatenated in order
ConcatFormat08b(seq, lo, hi) ==
    IF lo > hi THEN <<>>
    ELSE IF lo = hi THEN Format08b(seq[lo])
    ELSE LET mid == (lo + hi) \div 2
         IN  ConcatFormat08b(seq, lo, mid) \o ConcatFormat08b(seq, mid + 1, hi)

stringToBits(string) == ConcatFormat08b(string, 1, Len(string))

\* chunks of 8 bits, the last one shorter when the length is no multiple of 8
bitsStringToIntsList(bitsString) ==
    LET len == Len(bitsString)
        k   == (len + 7) \div 8
    IN  MkSeq([i \in 1..k |->
                  Int2(SubSeq(bitsString, 8 * (i - 1) + 1,
                              IF 8 * i <= len THEN 8 * i ELSE len))])

encodedToFinalBits(encoded) == ConcatFormat08b(encoded, 1, Len(encoded))

\* the loop of lines 120-124: 0xEC and 0x11 in turn, missingBytes times
BytePadding(missingBytes) ==
    IF missingBytes <= 0 THEN <<>>
    ELSE ConcatFormat08b(MkSeq([i \in 1..missingBytes |-> IF (i - 1) % 2 = 0 THEN 236 ELSE 17]),
                         1, missingBytes)

\* the count field that makeTotalBitsString emits
countBits(dataBits) == Format08b(Len(dataBits) \div 8)

makeTotalBitsString(dataBits, version) ==
    LET bitPadding     == IF Len(dataBits) % 8 = 0 THEN <<>>
                          ELSE Zeros(8 - (Len(dataBits) % 8))
        modeBits       == <<0,1,0,0>>
        terminatorBits == <<0,0,0,0>>
        capacity       == version.binary
        missingBytes   == capacity - (Len(dataBits) \div 8)
    IN  modeBits \o countBits(dataBits) \o dataBits \o terminatorBits
        \o bitPadding \o BytePadding(missingBytes)

(***************************************************************************)
(* RSCodec(nsym).encode of the reedsolo package, with its defaults:        *)
(* GF(256), primitive polynomial 0x11d, generator 2, first root 2^0,       *)
(* messages cut in chunks of 255 - nsym bytes.                             *)
(***************************************************************************)
RECURSIVE Xor(_, _)
Xor(a, b) ==
    IF a = 0 THEN b
    ELSE IF b = 0 THEN a
    ELSE ((a + b) % 2) + 2 * Xor(a \div 2, b \div 2)

\* gf_exp of reedsolo: GfExp[i+1] is 2^i in GF(256), i in 0..254
GfExp ==
    <<
      1,2,4,8,16,32,64,128,29,58,116,232,205,135,19,38,
      76,152,45,90,180,117,234,201,143,3,6,12,24,48,96,192,
      157,39,78,156,37,74,148,53,106,212,181,119,238,193,159,35,
      70,140,5,10,20,40,80,160,93,186,105,210,185,111,222,161,
      95,190,97,194,153,47,94,188,101,202,137,15,30,60,120,240,
      253,231,211,187,107,214,177,127,254,225,223,163,91,182,113,226,
      217,175,67,134,17,34,68,136,13,26,52,104,208,189,103,206,
      129,31,62,124,248,237,199,147,59,118,236,197,151,51,102,204,
      133,23,46,92,184,109,218,169,79,158,33,66,132,21,42,84,
      168,77,154,41,82,164,85,170,73,146,57,114,228,213,183,115,
      230,209,191,99,198,145,63,126,252,229,215,179,123,246,241,255,
      227,219,171,75,150,49,98,196,149,55,110,220,165,87,174,65,
      130,25,50,100,200,141,7,14,28,56,112,224,221,167,83,166,
      81,162,89,178,121,242,249,239,195,155,43,86,172,69,138,9,
      18,36,72,144,61,122,244,245,247,243,251,235,203,139,11,22,
      44,88,176,125,250,233,207,131,27,54,108,216,173,71,142>>

\* gf_log of reedsolo: GfLog[x] is the i with 2^i = x, x in 1..255
GfLog ==
    <<
      0,1,25,2,50,26,198,3,223,51,238,27,104,199,75,4,
      100,224,14,52,141,239,129,28,193,105,248,200,8,76,113,5,
      138,101,47,225,36,15,33,53,147,142,218,240,18,130,69,29,
      181,194,125,106,39,249,185,201,154,9,120,77,228,114,166,6,
      191,139,98,102,221,48,253,226,152,37,179,16,145,34,136,54,
      208,148,206,143,150,219,189,241,210,19,92,131,56,70,64,30,
      66,182,163,195,72,126,110,107,58,40,84,250,133,186,61,202,
      94,155,159,10,21,121,43,78,212,229,172,115,243,167,87,7,
      112,192,247,140,128,99,13,103,74,222,237,49,197,254,24,227,
      165,153,119,38,184,180,124,17,68,146,217,35,32,137,46,55,
      63,209,91,149,188,207,205,144,135,151,178,220,252,190,97,242,
      86,211,171,20,42,93,158,132,60,57,83,71,109,65,162,31,
      45,67,216,183,123,164,118,196,23,73,236,127,12,111,246,108,
      161,59,82,41,157,85,170,251,96,134,177,187,204,62,90,203,
      89,95,176,156,169,160,81,11,245,22,235,122,117,44,215,79,
      174,213,233,230,231,173,232,116,214,244,234,168,80,88,175>>

GfMul(x, y) ==
    IF x = 0 \/ y = 0 THEN 0 ELSE GfExp[((GfLog[x] + GfLog[y]) % 255) + 1]

RECURSIVE RsGeneratorPoly(_)
\* the product of (x - 2^i), i in 0..nsym-1, highest coefficient first
RsGeneratorPoly(nsym) ==
    IF nsym = 0 THEN <<1>>
    ELSE LET g == RsGeneratorPoly(nsym - 1)
             a == GfExp[nsym]
         IN  MkSeq([k \in 1..(Len(g) + 1) |->
                       Xor(IF k <= Len(g) THEN g[k] ELSE 0,
                           IF k >= 2 THEN GfMul(g[k - 1], a) ELSE 0)])

\* one step of the synthetic division of rs_encode_msg, at message position
\* i with coefficient out[i] # 0
RsDivideStep(out, i, gen) ==
    MkSeq([k \in 1..Len(out) |->
              IF k > i /\ k < i + Len(gen)
              THEN Xor(out[k], GfMul(gen[k - i + 1], out[i]))
              ELSE out[k]])

RECURSIVE RsDivide(_, _, _, _)
\* the loop of rs_encode_msg over the message positions i..msgLen
RsDivide(out, i, msgLen, gen) ==
    IF i > msgLen THEN out
    ELSE IF out[i] = 0 THEN RsDivide(out, i + 1, msgLen, gen)
    ELSE RsDivide(RsDivideStep(out, i, gen), i + 1, msgLen, gen)

\* rs_encode_msg: the message followed by the nsym remainder bytes
RsEncodeMsg(msg, nsym) ==
    LET div == RsDivide(msg \o Zeros(nsym), 1, Len(msg), RsGeneratorPoly(nsym))
    IN  msg \o SubSeq(div, Len(msg) + 1, Len(msg) + nsym)

RECURSIVE RsEncode(_, _)
RsEncode(block, nsym) ==
    LET chunk == 255 - nsym
    IN  IF Len(block) = 0 THEN <<>>
        ELSE IF Len(block) <= chunk THEN RsEncodeMsg(block, nsym)
        ELSE RsEncodeMsg(SubSeq(block, 1, chunk), nsym)
             \o RsEncode(SubSeq(block, chunk + 1, Len(block)), nsym)

\* the blocks of encodeIntsList (line 93)
SplitBlocks(intsList, n_blocks) ==
    LET block_length == Len(intsList) \div n_blocks
    IN  MkSeq([j \in 1..n_blocks |->
                  SubSeq(intsList, (j - 1) * block_length + 1, j * block_length)])

\* the interleaving loop of encodeIntsList (lines 99-102)
Interleave(encoded_blocks, n_blocks) ==
    MkSeq([k \in 1..(Len(encoded_blocks[1]) * n_blocks) |->
              encoded_blocks[((k - 1) % n_blocks) + 1][((k - 1) \div n_blocks) + 1]])

encodeIntsList(intsList, version) ==
    LET n_blocks       == version.blocks
        blocks         == SplitBlocks(intsList, n_blocks)
        encoded_blocks == MkSeq([j \in 1..n_blocks |->
                                    RsEncode(blocks[j], version.eccSymbolsPerBlock)])
    IN  Interleave(encoded_blocks, n_blocks)

(***************************************************************************)
(* Matrices of __generateMatrix.                                           *)
(***************************************************************************)
\* np.zeros((n,n))
ZerosMatrix(n) == [i \in 0..(n - 1) |-> [j \in 0..(n - 1) |-> 0]]

\* M[r0:r0+h, c0:c0+w] = blk, blk a sequence of h rows of w values
SetBlock(M, r0, c0, blk) ==
    [i \in DOMAIN M |->
        [j \in DOMAIN M[i] |->
            IF i >= r0 /\ i < r0 + Len(blk) /\ j >= c0 /\ j < c0 + Len(blk[1])
            THEN blk[i - r0 + 1][j - c0 + 1]
            ELSE M[i][j]]]

\* np.ones((h,w))
Ones(h, w) == [i \in 1..h |-> [j \in 1..w |-> 1]]

topLeft ==
    << <<1,1,1,1,1,1,1,0,0>>,
       <<1,0,0,0,0,0,1,0,0>>,
       <<1,0,1,1,1,0,1,0,0>>,
       <<1,0,1,1,1,0,1,0,0>>,
       <<1,0,1,1,1,0,1,0,0>>,
       <<1,0,0,0,0,0,1,0,0>>,
       <<1,1,1,1,1,1,1,0,1>>,
       <<0,0,0,0,0,0,0,0,0>>,
       <<0,0,0,0,0,0,1,0,0>> >>

bottomLeft ==
    << <<0,0,0,0,0,0,0,0,1>>,
       <<1,1,1,1,1,1,1,0,0>>,
       <<1,0,0,0,0,0,1,0,0>>,
       <<1,0,1,1,1,0,1,0,0>>,
       <<1,0,1,1,1,0,1,0,0>>,
       <<1,0,1,1,1,0,1,0,0>>,
       <<1,0,0,0,0,0,1,0,0>>,
       <<1,1,1,1,1,1,1,0,0>> >>

\* the array of lines 200-209 (the source names it bottomLeft again)
topRight ==
    << <<0,1,1,1,1,1,1,1>>,
       <<0,1,0,0,0,0,0,1>>,
       <<0,1,0,1,1,1,0,1>>,
       <<0,1,0,1,1,1,0,1>>,
       <<0,1,0,1,1,1,0,1>>,
       <<0,1,0,0,0,0,0,1>>,
       <<0,1,1,1,1,1,1,1>>,
       <<0,0,0,0,0,0,0,0>>,
       <<0,0,0,0,0,0,0,0>> >>

alignment ==
    << <<1,1,1,1,1>>,
       <<1,0,0,0,1>>,
       <<1,0,1,0,1>>,
       <<1,0,0,0,1>>,
       <<1,1,1,1,1>> >>

\* drawCorners, on the pair of infoMatrix and tmpMatrix
drawCorners(g, n) ==
    [info |-> SetBlock(SetBlock(SetBlock(g.info, 0, 0, topLeft),
                                n - 8, 0, bottomLeft),
                       0, n - 8, topRight),
     tmp  |-> SetBlock(SetBlock(SetBlock(g.tmp, 0, 0, Ones(9, 9)),
                                n - 8, 0, Ones(8, 9)),
                       0, n - 8, Ones(9, 8))]

\* drawVersionInformation: both loops read versionBitsInv with the same count,
\* 3*c + l in the left block and 3*l + c in the right one
drawVersionInformation(g, n, v) ==
    LET versionBitsInv == [k \in 0..17 |-> VERSIONBITS[v - 6][18 - k]]
        InLeft(i, j)   == i >= n - 11 /\ i <= n - 9 /\ j >= 0 /\ j <= 5
        InRight(i, j)  == i >= 0 /\ i <= 5 /\ j >= n - 11 /\ j <= n - 9
    IN  [info |-> [i \in DOMAIN g.info |-> [j \in DOMAIN g.info[i] |->
                      IF InLeft(i, j) THEN versionBitsInv[3 * j + (i - (n - 11))]
                      ELSE IF InRight(i, j) THEN versionBitsInv[3 * i + (j - (n - 11))]
                      ELSE g.info[i][j]]],
         tmp  |-> [i \in DOMAIN g.tmp |-> [j \in DOMAIN g.tmp[i] |->
                      IF InLeft(i, j) \/ InRight(i, j) THEN 1 ELSE g.tmp[i][j]]]]

\* the test of line 249: the 5x5 footprint around pos is all zero in tmpMatrix
FootprintFree(tmp, pos) ==
    \A i \in (pos[1] - 2)..(pos[1] + 2) : \A j \in (pos[2] - 2)..(pos[2] + 2) :
        tmp[i][j] = 0

RECURSIVE drawAlignmentsFrom(_, _, _)
\* the loop of drawAlignments over the positions k..Len(positions)
drawAlignmentsFrom(g, positions, k) ==
    IF k > Len(positions) THEN g
    ELSE IF FootprintFree(g.tmp, positions[k])
         THEN drawAlignmentsFrom(
                  [info |-> SetBlock(g.info, positions[k][1] - 2, positions[k][2] - 2, alignment),
                   tmp  |-> SetBlock(g.tmp, positions[k][1] - 2, positions[k][2] - 2, Ones(5, 5))],
                  positions, k + 1)
         ELSE drawAlignmentsFrom(g, positions, k + 1)

drawAlignments(g, version) == drawAlignmentsFrom(g, version.alignment, 1)

\* drawFixedPatterns: lines l and columns c in range(6, n-7)
drawFixedPatterns(g, n) ==
    LET InRange(k) == k >= 6 /\ k < n - 7
        color(k)   == IF k % 2 = 0 THEN 1 ELSE 0
    IN  [info |-> [i \in DOMAIN g.info |-> [j \in DOMAIN g.info[i] |->
                      IF i = 6 /\ InRange(j) THEN color(j)
                      ELSE IF j = 6 /\ InRange(i) THEN color(i)
                      ELSE g.info[i][j]]],
         tmp  |-> [i \in DOMAIN g.tmp |-> [j \in DOMAIN g.tmp[i] |->
                      IF (i = 6 /\ InRange(j)) \/ (j = 6 /\ InRange(i)) THEN 1
                      ELSE g.tmp[i][j]]]]

\* drawBits.isDrawable
isDrawable(tmp, l, c) == tmp[l][c] = 0

\* drawBits.isBorder, for the n x n matrix
isBorder(l, c, n) == l >= n \/ c >= n \/ l < 0 \/ c < 0

upPattern   == << <<0, -1>>, <<-1, 1>> >>
downPattern == << <<0, -1>>, <<1, 1>> >>
patterns    == <<upPattern, downPattern>>

\* patterns[patternCounter % 2][stepCounter % 2]
PatternStep(patternCounter, stepCounter) ==
    patterns[(patternCounter % 2) + 1][(stepCounter % 2) + 1]

\* the turn without the step over column 6
TurnColumnNoSkip(c) == c - 2

\* lines 289-291: the column of the next strip, column 6 stepped over
TurnColumn(c) == (IF c = 8 THEN c - 1 ELSE c) - 2

\* applyMask that sets the cell instead of inverting it
applyMaskSet(m, tmp, mat, n) ==
    [l \in 0..(n - 1) |-> [c \in 0..(n - 1) |->
        IF MASKS(m, l, c) = 0 /\ tmp[l][c] = 0 THEN 1 ELSE mat[l][c]]]

\* applyMask that does not look at tmpMatrix
applyMaskEverywhere(m, tmp, mat, n) ==
    [l \in 0..(n - 1) |-> [c \in 0..(n - 1) |->
        IF MASKS(m, l, c) = 0
        THEN (IF mat[l][c] = 1 THEN 0 ELSE 1)
        ELSE mat[l][c]]]

\* applyMask on the n x n matrix, for a key m of MASKS
applyMask(m, tmp, mat, n) ==
    [l \in 0..(n - 1) |-> [c \in 0..(n - 1) |->
        IF MASKS(m, l, c) = 0 /\ tmp[l][c] = 0
        THEN (IF mat[l][c] = 1 THEN 0 ELSE 1)
        ELSE mat[l][c]]]

\* matrix + infoMatrix
mergeMatrices(mat, info, n) ==
    [l \in 0..(n - 1) |-> [c \in 0..(n - 1) |-> mat[l][c] + info[l][c]]]

\* pixelsToDraw of drawFormatBits, as <<line, column>> pairs
pixelsToDraw(n) ==
    << <<8,0>>, <<8,1>>, <<8,2>>, <<8,3>>, <<8,4>>, <<8,5>>, <<8,7>>, <<8,8>>,
       <<7,8>>, <<5,8>>, <<4,8>>, <<3,8>>, <<2,8>>, <<1,8>>, <<0,8>>,
       <<n-1,8>>, <<n-2,8>>, <<n-3,8>>, <<n-4,8>>, <<n-5,8>>, <<n-6,8>>, <<n-7,8>>,
       <<8,n-8>>, <<8,n-7>>, <<8,n-6>>, <<8,n-5>>, <<8,n-4>>, <<8,n-3>>, <<8,n-2>>,
       <<8,n-1>> >>

\* drawFormatBits that stops after the first 15 positions
drawFormatBitsOnce(final, e, m, n) ==
    LET formatBits == FORMATBITS[e][m + 1]
        px         == pixelsToDraw(n)
    IN  [l \in 0..(n - 1) |-> [c \in 0..(n - 1) |->
            IF \E i \in 1..15 : px[i] = <<l, c>>
            THEN formatBits[CHOOSE i \in 1..15 : px[i] = <<l, c>>]
            ELSE final[l][c]]]

\* drawFormatBits: position i (from 0) of pixelsToDraw takes formatBits[i % 15],
\* a cell holding the value of the last position that names it
drawFormatBits(final, e, m, n) ==
    LET formatBits == FORMATBITS[e][m + 1]
        px         == pixelsToDraw(n)
    IN  [l \in 0..(n - 1) |-> [c \in 0..(n - 1) |->
            IF \E i \in 1..Len(px) : px[i] = <<l, c>>
            THEN formatBits[(((CHOOSE i \in 1..Len(px) :
                                  px[i] = <<l, c>>
                                  /\ \A k \in (i + 1)..Len(px) : px[k] # <<l, c>>) - 1) % 15) + 1]
            ELSE final[l][c]]]

\* __matrixToImg: pixel (c,l) is 0 (black) where the matrix holds 1, else 1
matrixToImg(final, n) ==
    [l \in 0..(n - 1) |-> [c \in 0..(n - 1) |-> IF final[l][c] = 1 THEN 0 ELSE 1]]

(***************************************************************************)
(* The state: the fields of the Qr object, the locals of __formatData and  *)
(* of __generateMatrix, and the position in __init__.                      *)
(***************************************************************************)
VARIABLES
    data, mask, forceVersion, errorCorrectionLevel,   \* arguments of __init__
    version,                                          \* self.version
    dataBits, totalBitsString, intsList, encoded,     \* locals of __formatData
    finalBits,                                        \* self.finalBits
    tmpMatrix, matrix, infoMatrix, finalMatrix,       \* locals of __generateMatrix
    l, c, patternCounter, stepCounter, bitCounter,    \* locals of drawBits
    selfMatrix, Img,                                  \* self.matrix, self.Img
    pc,                                               \* position in __init__
    raised,                                           \* the exception that ended __init__
    visited,                                          \* the cells drawBits has been on, in order
    original                                          \* MaskSpec: the matrix before masking

vars ==
    <<data, mask, forceVersion, errorCorrectionLevel, version, dataBits,
      totalBitsString, intsList, encoded, finalBits, tmpMatrix, matrix,
      infoMatrix, finalMatrix, l, c, patternCounter, stepCounter, bitCounter,
      selfMatrix, Img, pc, raised, visited, original>>

inputVars  == <<data, mask, forceVersion, errorCorrectionLevel>>
formatVars == <<dataBits, totalBitsString, intsList, encoded, finalBits>>
gridVars   == <<tmpMatrix, matrix, infoMatrix>>
walkVars   == <<l, c, patternCounter, stepCounter, bitCounter, visited>>
resultVars == <<finalMatrix, selfMatrix, Img>>

\* a local or field that has not been assigned
None == <<>>

Levels == {"L", "M", "Q", "H"}

\* the mask arguments drawn: the keys of MASKS and one that is no key
MaskArgs == MaskKeys \cup {8}

\* the payloads drawn: prefixes of the payload of line 449
Payloads(lens) == {SubSeq(MainData, 1, k) : k \in lens}

\* the versions drawn for a run of the whole pipeline
Versions == {1, 2}

\* the arguments of the runs of the whole pipeline: every mask and level on
\* the small versions, and one run of version 7, the first with version
\* information and with alignment centres on the timing lines
Arguments ==
    [data : Payloads({1, MaxDataLen}), mask : MaskArgs,
     forceVersion : Versions, errorCorrectionLevel : Levels]
    \cup [data : Payloads({MaxDataLen}), mask : {2},
          forceVersion : {7}, errorCorrectionLevel : {"L"}]

\* the state at entry of __init__ with arguments a
Entry(a) ==
    /\ data = a.data
    /\ mask = a.mask
    /\ forceVersion = a.forceVersion
    /\ errorCorrectionLevel = a.errorCorrectionLevel
    /\ version = None
    /\ dataBits = None /\ totalBitsString = None /\ intsList = None
    /\ encoded = None /\ finalBits = None
    /\ tmpMatrix = None /\ matrix = None /\ infoMatrix = None
    /\ finalMatrix = None
    /\ l = 0 /\ c = 0 /\ patternCounter = 0 /\ stepCounter = 0 /\ bitCounter = 0
    /\ selfMatrix = None /\ Img = None
    /\ pc = "loadVersion"
    /\ raised = "none"
    /\ visited = <<>>
    /\ original = None

Init == \E a \in Arguments : Entry(a)

(***************************************************************************)
(* __init__, lines 39-50.                                                  *)
(***************************************************************************)
LoadVersion ==
    /\ pc = "loadVersion"
    /\ version' = loadVersion(forceVersion, errorCorrectionLevel)
    /\ pc' = "stringToBits"
    /\ UNCHANGED <<inputVars, formatVars, gridVars, walkVars, resultVars, raised, original>>

(***************************************************************************)
(* __formatData, lines 130-140.                                            *)
(***************************************************************************)
StringToBits ==
    /\ pc = "stringToBits"
    /\ dataBits' = stringToBits(data)
    /\ pc' = "makeTotalBitsString"
    /\ UNCHANGED <<inputVars, version, totalBitsString, intsList, encoded, finalBits,
                   gridVars, walkVars, resultVars, raised, original>>

MakeTotalBitsString ==
    /\ pc = "makeTotalBitsString"
    /\ totalBitsString' = makeTotalBitsString(dataBits, version)
    /\ pc' = "bitsStringToIntsList"
    /\ UNCHANGED <<inputVars, version, dataBits, intsList, encoded, finalBits,
                   gridVars, walkVars, resultVars, raised, original>>

BitsStringToIntsList ==
    /\ pc = "bitsStringToIntsList"
    /\ intsList' = bitsStringToIntsList(totalBitsString)
    /\ pc' = "encodeIntsList"
    /\ UNCHANGED <<inputVars, version, dataBits, totalBitsString, encoded, finalBits,
                   gridVars, walkVars, resultVars, raised, original>>

EncodeIntsList ==
    /\ pc = "encodeIntsList"
    /\ encoded' = encodeIntsList(intsList, version)
    /\ pc' = "encodedToFinalBits"
    /\ UNCHANGED <<inputVars, version, dataBits, totalBitsString, intsList, finalBits,
                   gridVars, walkVars, resultVars, raised, original>>

EncodedToFinalBits ==
    /\ pc = "encodedToFinalBits"
    /\ finalBits' = encodedToFinalBits(encoded)
    /\ pc' = "generateMatrix"
    /\ UNCHANGED <<inputVars, version, dataBits, totalBitsString, intsList, encoded,
                   gridVars, walkVars, resultVars, raised, original>>

(***************************************************************************)
(* __generateMatrix, lines 143-340.                                        *)
(***************************************************************************)
\* lines 143-146
GenerateMatrix ==
    /\ pc = "generateMatrix"
    /\ tmpMatrix' = ZerosMatrix(version.size)
    /\ matrix' = ZerosMatrix(version.size)
    /\ infoMatrix' = ZerosMatrix(version.size)
    /\ pc' = "drawCorners"
    /\ UNCHANGED <<inputVars, version, formatVars, walkVars, resultVars, raised, original>>

\* line 214
DrawCorners ==
    /\ pc = "drawCorners"
    /\ LET g == drawCorners([info |-> infoMatrix, tmp |-> tmpMatrix], version.size)
       IN  infoMatrix' = g.info /\ tmpMatrix' = g.tmp
    /\ pc' = "drawVersionInformation"
    /\ UNCHANGED <<inputVars, version, formatVars, matrix, walkVars, resultVars, raised, original>>

\* lines 234-235
DrawVersionInformation ==
    /\ pc = "drawVersionInformation"
    /\ IF version.version >= 7
       THEN LET g == drawVersionInformation([info |-> infoMatrix, tmp |-> tmpMatrix],
                                            version.size, version.version)
            IN  infoMatrix' = g.info /\ tmpMatrix' = g.tmp
       ELSE UNCHANGED <<infoMatrix, tmpMatrix>>
    /\ pc' = "drawAlignments"
    /\ UNCHANGED <<inputVars, version, formatVars, matrix, walkVars, resultVars, raised, original>>

\* lines 254-255
DrawAlignments ==
    /\ pc = "drawAlignments"
    /\ IF version.version > 1
       THEN LET g == drawAlignments([info |-> infoMatrix, tmp |-> tmpMatrix], version)
            IN  infoMatrix' = g.info /\ tmpMatrix' = g.tmp
       ELSE UNCHANGED <<infoMatrix, tmpMatrix>>
    /\ pc' = "drawFixedPatterns"
    /\ UNCHANGED <<inputVars, version, formatVars, matrix, walkVars, resultVars, raised, original>>

\* line 257, and lines 274-284 of drawBits
DrawFixedPatterns ==
    /\ pc = "drawFixedPatterns"
    /\ LET g == drawFixedPatterns([info |-> infoMatrix, tmp |-> tmpMatrix], version.size)
       IN  infoMatrix' = g.info /\ tmpMatrix' = g.tmp
    /\ l' = version.size - 1
    /\ c' = version.size - 1
    /\ patternCounter' = 0 /\ stepCounter' = 0 /\ bitCounter' = 0
    /\ pc' = "drawBits"
    /\ UNCHANGED <<inputVars, version, formatVars, matrix, visited, resultVars, raised, original>>

\* lines 286-296: the walker is off the matrix and turns.  With more bits
\* than free cells the loop never ends and c decreases for ever; the model
\* follows it down to -MaxOvershoot.
DrawBitsTurn ==
    /\ pc = "drawBits"
    /\ bitCounter < Len(finalBits)
    /\ isBorder(l, c, version.size)
    /\ c > -MaxOvershoot
    /\ c' = TurnColumn(c)
    /\ l' = IF patternCounter % 2 = 0 THEN l + 1 ELSE l - 1
    /\ patternCounter' = patternCounter + 1
    /\ UNCHANGED <<inputVars, version, formatVars, gridVars, stepCounter, bitCounter,
                   visited, resultVars, pc, raised, original>>

\* lines 299-305
DrawBitsWrite ==
    /\ pc = "drawBits"
    /\ bitCounter < Len(finalBits)
    /\ ~isBorder(l, c, version.size)
    /\ isDrawable(tmpMatrix, l, c)
    /\ matrix' = [matrix EXCEPT ![l][c] = finalBits[bitCounter + 1]]
    /\ bitCounter' = bitCounter + 1
    /\ l' = l + PatternStep(patternCounter, stepCounter)[1]
    /\ c' = c + PatternStep(patternCounter, stepCounter)[2]
    /\ stepCounter' = stepCounter + 1
    /\ visited' = Append(visited, <<l, c>>)
    /\ UNCHANGED <<inputVars, version, formatVars, tmpMatrix, infoMatrix, patternCounter,
                   resultVars, pc, raised, original>>

\* lines 307-310
DrawBitsSkip ==
    /\ pc = "drawBits"
    /\ bitCounter < Len(finalBits)
    /\ ~isBorder(l, c, version.size)
    /\ ~isDrawable(tmpMatrix, l, c)
    /\ l' = l + PatternStep(patternCounter, stepCounter)[1]
    /\ c' = c + PatternStep(patternCounter, stepCounter)[2]
    /\ stepCounter' = stepCounter + 1
    /\ visited' = Append(visited, <<l, c>>)
    /\ UNCHANGED <<inputVars, version, formatVars, gridVars, patternCounter, bitCounter,
                   resultVars, pc, raised, original>>

\* line 286, the loop condition fails
DrawBitsExit ==
    /\ pc = "drawBits"
    /\ ~(bitCounter < Len(finalBits))
    /\ pc' = "applyMask"
    /\ UNCHANGED <<inputVars, version, formatVars, gridVars, walkVars, resultVars,
                   raised, original>>

\* line 321; MASKS[str(self.mask)] raises KeyError at the first cell when
\* the mask is no key
ApplyMask ==
    /\ pc = "applyMask"
    /\ IF mask \in MaskKeys
       THEN /\ matrix' = applyMask(mask, tmpMatrix, matrix, version.size)
            /\ pc' = "merge"
            /\ UNCHANGED raised
       ELSE /\ raised' = "KeyError"
            /\ pc' = "raised"
            /\ UNCHANGED matrix
    /\ UNCHANGED <<inputVars, version, formatVars, tmpMatrix, infoMatrix, walkVars,
                   resultVars, original>>

\* line 323
Merge ==
    /\ pc = "merge"
    /\ finalMatrix' = mergeMatrices(matrix, infoMatrix, version.size)
    /\ pc' = "drawFormatBits"
    /\ UNCHANGED <<inputVars, version, formatVars, gridVars, walkVars, selfMatrix, Img,
                   raised, original>>

\* line 337
DrawFormatBits ==
    /\ pc = "drawFormatBits"
    /\ finalMatrix' = drawFormatBits(finalMatrix, errorCorrectionLevel, mask, version.size)
    /\ pc' = "return"
    /\ UNCHANGED <<inputVars, version, formatVars, gridVars, walkVars, selfMatrix, Img,
                   raised, original>>

\* lines 339-340
Return ==
    /\ pc = "return"
    /\ selfMatrix' = finalMatrix
    /\ Img' = matrixToImg(finalMatrix, version.size)
    /\ pc' = "done"
    /\ UNCHANGED <<inputVars, version, formatVars, gridVars, walkVars, finalMatrix,
                   raised, original>>

Next ==
    \/ LoadVersion
    \/ StringToBits
    \/ MakeTotalBitsString
    \/ BitsStringToIntsList
    \/ EncodeIntsList
    \/ EncodedToFinalBits
    \/ GenerateMatrix
    \/ DrawCorners
    \/ DrawVersionInformation
    \/ DrawAlignments
    \/ DrawFixedPatterns
    \/ DrawBitsTurn
    \/ DrawBitsWrite
    \/ DrawBitsSkip
    \/ DrawBitsExit
    \/ ApplyMask
    \/ Merge
    \/ DrawFormatBits
    \/ Return

Spec == Init /\ [][Next]_vars

(***************************************************************************)
(* The data formatting alone: __loadVersion and __formatData, over more    *)
(* rows of the table than the whole pipeline is run on.                    *)
(***************************************************************************)
FormatVersions == {1, 2, 3, 10}

FormatArguments ==
    [data : Payloads(0..MaxFormatLen), mask : {0},
     forceVersion : FormatVersions, errorCorrectionLevel : Levels]

FormatInit == \E a \in FormatArguments : Entry(a)

FormatNext ==
    \/ LoadVersion
    \/ StringToBits
    \/ MakeTotalBitsString
    \/ BitsStringToIntsList
    \/ EncodeIntsList
    \/ EncodedToFinalBits

FormatSpec == FormatInit /\ [][FormatNext]_vars

(***************************************************************************)
(* applyMask alone, applied twice to a reservation grid and a module       *)
(* matrix of side MaskSize.                                                *)
(***************************************************************************)
Cells(n) == (0..(n - 1)) \X (0..(n - 1))

\* grids that are constant, or constant but for one cell
AlmostConstantGrids(n) ==
    {[i \in 0..(n - 1) |-> [j \in 0..(n - 1) |-> b]] : b \in {0, 1}}
    \cup {[i \in 0..(n - 1) |-> [j \in 0..(n - 1) |-> IF <<i, j>> = p THEN 1 - b ELSE b]] :
             p \in Cells(n), b \in {0, 1}}

\* the constant matrices, the checkerboards and the striped matrices
PatternGrids(n) ==
    {[i \in 0..(n - 1) |-> [j \in 0..(n - 1) |-> (a * i + b * j + d) % 2]] :
        a \in {0, 1}, b \in {0, 1}, d \in {0, 1}}

MaskInit ==
    /\ mask \in MaskKeys
    /\ tmpMatrix \in AlmostConstantGrids(MaskSize)
    /\ matrix \in PatternGrids(MaskSize)
    /\ original = matrix
    /\ pc = "mask0"
    /\ data = <<>> /\ forceVersion = 0 /\ errorCorrectionLevel = "L"
    /\ version = None
    /\ dataBits = None /\ totalBitsString = None /\ intsList = None
    /\ encoded = None /\ finalBits = None
    /\ infoMatrix = None /\ finalMatrix = None
    /\ l = 0 /\ c = 0 /\ patternCounter = 0 /\ stepCounter = 0 /\ bitCounter = 0
    /\ selfMatrix = None /\ Img = None
    /\ raised = "none"
    /\ visited = <<>>

MaskOnce ==
    /\ pc = "mask0"
    /\ matrix' = applyMask(mask, tmpMatrix, matrix, MaskSize)
    /\ pc' = "mask1"
    /\ UNCHANGED <<inputVars, version, formatVars, tmpMatrix, infoMatrix, walkVars,
                   resultVars, raised, original>>

MaskTwice ==
    /\ pc = "mask1"
    /\ matrix' = applyMask(mask, tmpMatrix, matrix, MaskSize)
    /\ pc' = "mask2"
    /\ UNCHANGED <<inputVars, version, formatVars, tmpMatrix, infoMatrix, walkVars,
                   resultVars, raised, original>>

MaskNext == MaskOnce \/ MaskTwice

MaskSpec == MaskInit /\ [][MaskNext]_vars

(***************************************************************************)
(* Properties.                                                             *)
(***************************************************************************)
\* the positions of __init__ up to the end of __formatData
FormatPcs ==
    {"loadVersion", "stringToBits", "makeTotalBitsString", "bitsStringToIntsList",
     "encodeIntsList", "encodedToFinalBits"}

\* the positions of __generateMatrix at which no cell has been written
UnwrittenPcs == {"generateMatrix", "drawCorners"}

\* the cells that tmp leaves free
Unreserved(tmp, n) == {p \in Cells(n) : tmp[p[1]][p[2]] = 0}

\* C1: a payload longer than the byte capacity of the row ends the encode
\* with CapacityExceeded: the formatting never completes and no matrix is
\* generated.
C1_CapacityExceeded ==
    (pc \notin FormatPcs /\ Len(data) > version.binary)
        => raised = "CapacityExceeded"

\* C2: a mask outside 0..7 fails with InvalidMask before any cell of the
\* matrices is written.
C2_InvalidMaskFirst ==
    (mask \notin 0..7 /\ pc \notin FormatPcs \cup UnwrittenPcs)
        => raised = "InvalidMask"

\* C3: for a payload within capacity, when data placement starts the cells
\* left unreserved are as many as the bits of the stream handed to it.
C3_UnreservedIsStreamLength ==
    (pc = "drawBits" /\ stepCounter = 0 /\ patternCounter = 0
     /\ Len(data) <= version.binary)
        => Cardinality(Unreserved(tmpMatrix, version.size)) = Len(finalBits)

\* C4: masking twice with the same mask gives back the matrix, and masking
\* leaves every reserved cell as it was.
C4_MaskInvolution ==
    /\ pc = "mask2" => matrix = original
    /\ pc \in {"mask1", "mask2"} =>
           \A p \in Cells(MaskSize) :
               tmpMatrix[p[1]][p[2]] # 0 => matrix[p[1]][p[2]] = original[p[1]][p[2]]

\* a matrix has been masked twice, the mask inverts some free cell of it and
\* some cell is reserved
C4_Witness ==
    /\ pc = "mask2"
    /\ matrix = original
    /\ \E p \in Cells(MaskSize) : tmpMatrix[p[1]][p[2]] = 0 /\ MASKS(mask, p[1], p[2]) = 0
    /\ \E p \in Cells(MaskSize) : tmpMatrix[p[1]][p[2]] = 1 /\ MASKS(mask, p[1], p[2]) = 0

\* the predicates of the mask table, with floor division in entry 4
TablePredicate(m, i, j) ==
    CASE m = 0 -> (i + j) % 2
      [] m = 1 -> i % 2
      [] m = 2 -> j % 3
      [] m = 3 -> (i + j) % 3
      [] m = 4 -> ((i \div 2) + (j \div 3)) % 2
      [] m = 5 -> ((i * j) % 2) + ((i * j) % 3)
      [] m = 6 -> (((i * j) % 3) + i * j) % 2
      [] m = 7 -> (((i * j) % 3) + i + j) % 2

\* C5: masking inverts an unreserved cell exactly when the predicate of the
\* mask index, as tabulated, is 0 at the cell.
C5_MaskPredicates ==
    pc = "mask1" =>
        \A p \in Cells(MaskSize) :
            tmpMatrix[p[1]][p[2]] = 0 =>
                ((matrix[p[1]][p[2]] # original[p[1]][p[2]])
                    <=> (TablePredicate(mask, p[1], p[2]) = 0))

\* the cells of the two copies of the format information, in bit order
CopyA ==
    << <<8,0>>, <<8,1>>, <<8,2>>, <<8,3>>, <<8,4>>, <<8,5>>, <<8,7>>, <<8,8>>,
       <<7,8>>, <<5,8>>, <<4,8>>, <<3,8>>, <<2,8>>, <<1,8>>, <<0,8>> >>

CopyB(n) ==
    [k \in 1..15 |-> IF k <= 7 THEN <<n - k, 8>> ELSE <<8, n - 16 + k>>]

\* the (level, mask) pairs whose format word is read at the cells of copy
ReadFormat(m, copy) ==
    {x \in Levels \X MaskKeys :
        \A k \in 1..15 : FORMATBITS[x[1]][x[2] + 1][k] = m[copy[k][1]][copy[k][2]]}

\* C6: the returned matrix holds the format word of (level, mask) in copy A
\* and in copy B, bit k at position k, and either copy reads back as that
\* (level, mask) and no other.
C6_FormatCopies ==
    pc = "done" =>
        /\ \A k \in 1..15 :
               /\ selfMatrix[CopyA[k][1]][CopyA[k][2]]
                      = FORMATBITS[errorCorrectionLevel][mask + 1][k]
               /\ selfMatrix[CopyB(version.size)[k][1]][CopyB(version.size)[k][2]]
                      = FORMATBITS[errorCorrectionLevel][mask + 1][k]
        /\ ReadFormat(selfMatrix, CopyA) = {<<errorCorrectionLevel, mask>>}
        /\ ReadFormat(selfMatrix, CopyB(version.size)) = {<<errorCorrectionLevel, mask>>}

\* an encode at level Q with mask 5 has returned
C6_Witness ==
    /\ pc = "done"
    /\ errorCorrectionLevel = "Q" /\ mask = 5
    /\ ReadFormat(selfMatrix, CopyB(version.size)) = {<<"Q", 5>>}

\* the module of a finder pattern at offset (i,j) of its 7x7 square
FinderModule(i, j) ==
    LET di == IF i >= 3 THEN i - 3 ELSE 3 - i
        dj == IF j >= 3 THEN j - 3 ELSE 3 - j
        d  == IF di >= dj THEN di ELSE dj
    IN  IF d = 2 THEN 0 ELSE 1

\* the finder and timing cells of an n x n symbol
FinderCells(n) ==
    {p \in Cells(n) : \/ p[1] <= 6 /\ p[2] <= 6
                      \/ p[1] <= 6 /\ p[2] >= n - 7
                      \/ p[1] >= n - 7 /\ p[2] <= 6}

TimingCells(n) ==
    {p \in Cells(n) : \/ p[1] = 6 /\ p[2] >= 8 /\ p[2] <= n - 9
                      \/ p[2] = 6 /\ p[1] >= 8 /\ p[1] <= n - 9}

\* the module of a finder or timing cell, which the version alone decides
FixedModule(n, p) ==
    IF p \in TimingCells(n) THEN (IF (p[1] + p[2]) % 2 = 0 THEN 1 ELSE 0)
    ELSE FinderModule(IF p[1] <= 6 THEN p[1] ELSE p[1] - (n - 7),
                      IF p[2] <= 6 THEN p[2] ELSE p[2] - (n - 7))

\* C7: every finder and timing cell of a returned matrix holds the module
\* that the version alone decides, so any two encodes of a version agree on
\* these cells whatever their payloads, levels and masks.
C7_FixedPatterns ==
    pc = "done" =>
        \A p \in FinderCells(version.size) \cup TimingCells(version.size) :
            selfMatrix[p[1]][p[2]] = FixedModule(version.size, p)

\* a version 2 encode of the longer payload with mask 3 has returned, after
\* alignment drawing, data placement and masking wrote the matrices
C7_Witness ==
    /\ pc = "done"
    /\ Len(data) > 1 /\ mask = 3 /\ version.version = 2
    /\ \E p \in Cells(version.size) : matrix[p[1]][p[2]] = 1
    /\ selfMatrix[0][0] = 1 /\ selfMatrix[6][8] = 1 /\ selfMatrix[6][9] = 0

\* C8: within capacity, the count field after the mode indicator 0100 is 8
\* bits wide up to version 9 and 16 bits wide from version 10, holds the
\* payload length, and is followed by the payload bits.
C8_CountIndicator ==
    (pc \notin {"loadVersion", "stringToBits", "makeTotalBitsString"}
     /\ pc \in FormatPcs \cup {"generateMatrix"}
     /\ Len(data) <= version.binary) =>
        LET w == IF version.version <= 9 THEN 8 ELSE 16
        IN  /\ SubSeq(totalBitsString, 1, 4) = <<0,1,0,0>>
            /\ Int2(SubSeq(totalBitsString, 5, 4 + w)) = Len(data)
            /\ SubSeq(totalBitsString, 5 + w, 4 + w + 8 * Len(data)) = dataBits

\* C9: the assembled codewords are split into B contiguous blocks of equal
\* length that hold each of them once, and the interleaved stream is the
\* column-major walk of the data of the blocks followed by that of their
\* ECC codewords: none is dropped, its length is the number of codewords
\* plus B*C.
C9_Interleaving ==
    (pc \in {"encodedToFinalBits", "generateMatrix"}) =>
        LET B  == version.blocks
            C  == version.eccSymbolsPerBlock
            Ld == Len(intsList) \div B
            ecc(j) == LET blk == SubSeq(intsList, j * Ld + 1, (j + 1) * Ld)
                      IN  SubSeq(RsEncode(blk, C), Ld + 1, Ld + C)
        IN  /\ B * Ld = Len(intsList)
            /\ Len(encoded) = Len(intsList) + B * C
            /\ \A i \in 0..(Ld - 1) : \A j \in 0..(B - 1) :
                   encoded[i * B + j + 1] = intsList[j * Ld + i + 1]
            /\ \A i \in 0..(C - 1) : \A j \in 0..(B - 1) :
                   encoded[Ld * B + i * B + j + 1] = ecc(j)[i + 1]

\* the k-th cell (from 1) of the zig-zag over an n x n matrix: strips of two
\* columns from the right edge, column 6 left out, 2n cells a strip, the
\* right cell of a line before the left one, strips upward and downward in
\* turn starting upward
ZigZagCell(k, n) ==
    LET s     == (k - 1) \div (2 * n)
        w     == (k - 1) % (2 * n)
        right == IF n - 1 - 2 * s > 6 THEN n - 1 - 2 * s ELSE n - 2 - 2 * s
        line  == IF s % 2 = 0 THEN n - 1 - (w \div 2) ELSE w \div 2
    IN  <<line, right - (w % 2)>>

\* the visited cells that are free, in visiting order
FreeVisited == SelectSeq(visited, LAMBDA p : tmpMatrix[p[1]][p[2]] = 0)

\* C10: the walker of the data placement is on the cells of the zig-zag in
\* order, never on column 6 and on no cell twice; bit k of the stream is in
\* the k-th free cell of the visiting order, and the reserved cells hold no
\* bit and consumed none.
C10_ZigZagPlacement ==
    /\ (pc = "drawBits" /\ Len(visited) > 0) =>
           /\ visited[Len(visited)] = ZigZagCell(Len(visited), version.size)
           /\ visited[Len(visited)][2] # 6
           /\ Len(visited) = stepCounter
    /\ (pc = "drawBits" /\ ~isBorder(l, c, version.size)) =>
           <<l, c>> = ZigZagCell(stepCounter + 1, version.size)
    /\ pc = "applyMask" =>
           /\ \A k \in 1..Len(visited) : visited[k] = ZigZagCell(k, version.size)
           /\ Cardinality({visited[k] : k \in 1..Len(visited)}) = Len(visited)
           /\ Len(FreeVisited) = Len(finalBits)
           /\ bitCounter = Len(finalBits)
           /\ \A k \in 1..Len(finalBits) :
                  matrix[FreeVisited[k][1]][FreeVisited[k][2]] = finalBits[k]
           /\ \A p \in Cells(version.size) :
                  tmpMatrix[p[1]][p[2]] # 0 => matrix[p[1]][p[2]] = 0

\* the data placement of a version 2 symbol has ended: the walker went
\* from strip (8,7) to strip (5,4), skipped reserved cells and placed
\* every bit
C10_Witness ==
    /\ pc = "applyMask"
    /\ version.version = 2
    /\ bitCounter = Len(finalBits)
    /\ Len(visited) > Len(finalBits)
    /\ \E k \in 1..(Len(visited) - 1) : visited[k][2] = 7 /\ visited[k + 1][2] = 5
    /\ \E k \in 1..Len(finalBits) : finalBits[k] = 1
====
